---- MODULE Spec2Model ----
(***************************************************************************)
(* Monte Carlo tree search of src/src/mcts.py: the search tree, the driver *)
(* monte_carlo_tree_search with its four phases, get_best_action,          *)
(* get_action_probabilities and one game of generate_test_data.            *)
(*                                                                         *)
(* The game behind the StateHandler interface is a small take-away game:   *)
(* a pile of stones, a move takes 1..MaxTake stones, a move may not repeat *)
(* the take of the move before it, whoever empties the pile wins, a player *)
(* left without a legal move on a non-empty pile draws.  A game state is   *)
(* the pile together with the stack of moves made (step pushes a move,     *)
(* step_back pops it).                                                     *)
(***************************************************************************)
EXTENDS Integers, Sequences, FiniteSets, TLC

\* ---------------------------------------------------------------- bounds
MaxPile == 4     \* largest starting pile of the root state
MaxTake == 2     \* size of the action space: a move takes 1..MaxTake stones
MaxItr == 3      \* largest iteration budget max_itr handed to the driver
MaxVisits == 2   \* largest visit count of the nodes handed to get_best_action alone

\* The absent node: parent of the root, best_node before any child is seen.
None == 0

VARIABLES
    state,        \* node -> the game state the node owns
    parent,       \* node -> its parent node, None for the root
    children,     \* node -> the sequence of its child nodes
    visits,       \* node -> visits
    reward_sum,   \* node -> accumulated reward
    root,         \* the node handed to the driver
    handle,       \* the game-state handle handed to the driver
    max_itr,      \* the iteration budget
    itr,          \* full cycles completed
    pc,           \* position of the driver
    err,          \* "none", or the exception that ended the run
    chosen_node,  \* result of selection in the current cycle
    created_node, \* result of expansion in the current cycle
    result,       \* result of simulation in the current cycle
    best_node,    \* result of get_best_action
    distributions \* the vector get_action_probabilities hands to softmax

vars == <<state, parent, children, visits, reward_sum, root, handle, max_itr,
          itr, pc, err, chosen_node, created_node, result, best_node,
          distributions>>

\* ------------------------------------------------- the game state contract
LastMove(s) == IF Len(s.hist) = 0 THEN 0 ELSE s.hist[Len(s.hist)]

\* 1 where taking m stones is legal in s, else 0; one slot per action 1..MaxTake
get_actions_mask(s) ==
    [m \in 1..MaxTake |-> IF m <= s.pile /\ m # LastMove(s) THEN 1 ELSE 0]

RECURSIVE LegalFrom(_, _)
LegalFrom(s, m) ==
    IF m > MaxTake THEN <<>>
    ELSE (IF get_actions_mask(s)[m] = 1 THEN <<m>> ELSE <<>>) \o LegalFrom(s, m + 1)

\* the legal actions of s in action order
get_legal_actions(s) == LegalFrom(s, 1)

is_finished(s) == Len(get_legal_actions(s)) = 0

\* 1: the first player emptied the pile, -1: the second did, 0: nobody did
get_winner(s) ==
    IF s.pile # 0 \/ Len(s.hist) = 0 THEN 0
    ELSE IF Len(s.hist) % 2 = 1 THEN 1 ELSE -1

step(s, m) == [pile |-> s.pile - m, hist |-> Append(s.hist, m)]

step_back(s) ==
    [pile |-> s.pile + LastMove(s), hist |-> SubSeq(s.hist, 1, Len(s.hist) - 1)]

\* the results a uniformly random playout from s can end with
RECURSIVE Outcomes(_)
Outcomes(s) ==
    IF is_finished(s) THEN {get_winner(s)}
    ELSE UNION {Outcomes(step(s, get_legal_actions(s)[i])) :
                    i \in 1..Len(get_legal_actions(s))}

\* ------------------------------------------------------------ the node store
Nodes == 1..Len(state)

has_parent(n) == parent[n] # None

get_parent(n) == parent[n]

get_children(n) == children[n]

RECURSIVE SumVisits(_, _)
SumVisits(v, kids) ==
    IF kids = <<>> THEN 0 ELSE v[Head(kids)] + SumVisits(v, Tail(kids))

RECURSIVE Depth(_)
Depth(n) == IF parent[n] = None THEN 0 ELSE 1 + Depth(parent[n])

RECURSIVE Ancestor(_, _)
Ancestor(n, k) == IF k = 0 THEN n ELSE Ancestor(parent[n], k - 1)

\* ------------------------------------------------------------------- ucb
\* Scores are kept in hundredths.  ln(n) in ten-thousandths, n = 1..10.
LnTab == <<0, 6931, 10986, 13863, 16094, 17918, 19459, 20794, 21972, 23026>>

ISqrt(n) == CHOOSE k \in 0..250 : k * k <= n /\ n < (k + 1) * (k + 1)

\* ucb(node): nan when the logarithm of parent_visits/visits is negative
ucb(node) ==
    LET v  == IF visits[node] = 0 THEN 1 ELSE visits[node]
        pv == IF visits[get_parent(node)] = 0 THEN 1 ELSE visits[get_parent(node)]
        exploitation == (reward_sum[node] * 100) \div v
    IN  IF pv < v THEN [nan |-> TRUE, val |-> 0]
        ELSE [nan |-> FALSE,
              val |-> exploitation + ISqrt(2 * (LnTab[pv] - LnTab[v]))]

\* best_node_value < ucb(child_node); every comparison with nan is false
Less(best_node_value, u) == ~u.nan /\ best_node_value < u.val

\* ------------------------------------------------------------- selection
\* the for loop of selection over the children still to scan
RECURSIVE ScanChildren(_, _, _)
ScanChildren(kids, best_child, best_node_value) ==
    IF kids = <<>> THEN best_child
    ELSE IF Less(best_node_value, ucb(Head(kids)))
         THEN ScanChildren(Tail(kids), Head(kids), ucb(Head(kids)).val)
         ELSE ScanChildren(Tail(kids), best_child, best_node_value)

\* selection that returns the node it was given without descending
SelectionNoDescent(node) == [err |-> "none", node |-> node]

\* selection(node); node = None raises AttributeError at node.get_children()
RECURSIVE selection(_)
selection(node) ==
    IF node = None THEN [err |-> "AttributeError", node |-> None]
    ELSE IF get_children(node) # <<>>
         THEN selection(ScanChildren(get_children(node), None, 0))
         ELSE [err |-> "none", node |-> node]

\* ------------------------------------------------------------- expansion
\* expansion without state_handler.step_back(): the moves pile up on the handle
RECURSIVE ExpansionHandleNoStepBack(_, _, _)
ExpansionHandleNoStepBack(h, moves, i) ==
    IF i = 1 THEN h
    ELSE step(ExpansionHandleNoStepBack(h, moves, i - 1), moves[i - 1])

\* the handle at the start of the i-th pass of the for loop of expansion
RECURSIVE ExpansionHandle(_, _, _)
ExpansionHandle(h, moves, i) ==
    IF i = 1 THEN h
    ELSE step_back(step(ExpansionHandle(h, moves, i - 1), moves[i - 1]))

\* the state the i-th created child owns: a deep copy of the stepped handle
ChildState(h, moves, i) == step(ExpansionHandle(h, moves, i), moves[i])

\* ------------------------------------------------------- backpropagation
\* backpropagation that adds the reward but leaves out node.add_visits()
RECURSIVE BackpropagationNoVisit(_, _, _, _)
BackpropagationNoVisit(v, r, node, res) ==
    IF node = None THEN [visits |-> v, reward_sum |-> r, err |-> "AttributeError"]
    ELSE LET r1 == [r EXCEPT ![node] = @ + res]
         IN  IF ~has_parent(node)
             THEN BackpropagationNoVisit(v, r1, get_parent(node), -res)
             ELSE [visits |-> v, reward_sum |-> r1, err |-> "none"]

\* backpropagation(node, result) on the statistics v, r
RECURSIVE backpropagation(_, _, _, _)
backpropagation(v, r, node, res) ==
    IF node = None THEN [visits |-> v, reward_sum |-> r, err |-> "AttributeError"]
    ELSE LET v1 == [v EXCEPT ![node] = @ + 1]
             r1 == [r EXCEPT ![node] = @ + res]
         IN  IF ~has_parent(node)
             THEN backpropagation(v1, r1, get_parent(node), -res)
             ELSE [visits |-> v1, reward_sum |-> r1, err |-> "none"]

\* ------------------------------------------------------- get_best_action
\* get_best_action comparing with >= : the last of several equal counts wins
RECURSIVE BestScanLast(_, _, _)
BestScanLast(kids, max_visits, best) ==
    IF kids = <<>> THEN best
    ELSE IF visits[Head(kids)] >= max_visits
         THEN BestScanLast(Tail(kids), visits[Head(kids)], Head(kids))
         ELSE BestScanLast(Tail(kids), max_visits, best)

\* the for loop of get_best_action over the children still to scan
RECURSIVE BestScan(_, _, _)
BestScan(kids, max_visits, best) ==
    IF kids = <<>> THEN best
    ELSE IF visits[Head(kids)] > max_visits
         THEN BestScan(Tail(kids), visits[Head(kids)], Head(kids))
         ELSE BestScan(Tail(kids), max_visits, best)

get_best_action(node) ==
    IF is_finished(state[node]) THEN node
    ELSE BestScan(get_children(node), -1, None)

\* ------------------------------------------------------------ the driver
RootState(p) == [pile |-> p, hist |-> <<>>]

\* generate_test_data: root = Node(state), game = root.get_state(), then
\* monte_carlo_tree_search(root, game, ...) is called
Init ==
    /\ \E p \in 0..MaxPile :
          /\ state = <<RootState(p)>>
          /\ handle = RootState(p)
    /\ parent = <<None>>
    /\ children = << <<>> >>
    /\ visits = <<0>>
    /\ reward_sum = <<0>>
    /\ root = 1
    /\ max_itr \in 0..MaxItr
    /\ itr = 0
    /\ pc = "call"
    /\ err = "none"
    /\ chosen_node = None
    /\ created_node = None
    /\ result = 0
    /\ best_node = None
    /\ distributions = <<>>

tree == <<state, parent, children, visits, reward_sum>>
cycle == <<chosen_node, created_node, result>>

\* max_itr == 0: start_time = time.time() with time bound to the function time
TimeBudget ==
    /\ pc = "call" /\ err = "none"
    /\ max_itr = 0
    /\ err' = "AttributeError"
    /\ UNCHANGED <<tree, root, handle, max_itr, itr, pc, cycle, best_node, distributions>>

\* else: itr = 0
IterationBudget ==
    /\ pc = "call" /\ err = "none"
    /\ max_itr # 0
    /\ itr' = 0
    /\ pc' = "loop"
    /\ UNCHANGED <<tree, root, handle, max_itr, err, cycle, best_node, distributions>>

\* while itr < max_itr
LoopEnter ==
    /\ pc = "loop" /\ err = "none"
    /\ itr < max_itr
    /\ pc' = "selection"
    /\ UNCHANGED <<tree, root, handle, max_itr, itr, err, cycle, best_node, distributions>>

\* return root
LoopExit ==
    /\ pc = "loop" /\ err = "none"
    /\ ~(itr < max_itr)
    /\ pc' = "returned"
    /\ UNCHANGED <<tree, root, handle, max_itr, itr, err, cycle, best_node, distributions>>

\* chosen_node = selection(root)
Selection ==
    /\ pc = "selection" /\ err = "none"
    /\ LET s == selection(root) IN
          /\ err' = s.err
          /\ chosen_node' = s.node
          /\ pc' = IF s.err = "none" THEN "expansion" ELSE pc
    /\ UNCHANGED <<tree, root, handle, max_itr, itr, created_node, result, best_node, distributions>>

\* created_node = expansion(chosen_node, state_handler)
Expansion ==
    /\ pc = "expansion" /\ err = "none"
    /\ LET moves == get_legal_actions(handle)
           k == Len(moves)
           n == Len(state)
           grown == state \o [i \in 1..k |-> ChildState(handle, moves, i)]
       IN  /\ handle' = ExpansionHandle(handle, moves, k + 1)
           \* the root's state is the handle itself
           /\ state' = [grown EXCEPT ![root] = handle']
           /\ parent' = parent \o [i \in 1..k |-> chosen_node]
           /\ children' = [children EXCEPT ![chosen_node] = @ \o [i \in 1..k |-> n + i]]
                              \o [i \in 1..k |-> <<>>]
           /\ visits' = visits \o [i \in 1..k |-> 0]
           /\ reward_sum' = reward_sum \o [i \in 1..k |-> 0]
           /\ IF children'[chosen_node] # <<>>
              THEN \E j \in 1..Len(children'[chosen_node]) :
                       created_node' = children'[chosen_node][j]
              ELSE created_node' = chosen_node
    /\ pc' = "simulation"
    /\ UNCHANGED <<root, max_itr, itr, err, chosen_node, result, best_node, distributions>>

\* result = simulation(created_node, policy), policy = None
Simulation ==
    /\ pc = "simulation" /\ err = "none"
    /\ result' \in Outcomes(state[created_node])
    /\ pc' = "backpropagation"
    /\ UNCHANGED <<tree, root, handle, max_itr, itr, err, chosen_node, created_node, best_node, distributions>>

\* backpropagation(created_node, result); itr += 1
Backpropagation ==
    /\ pc = "backpropagation" /\ err = "none"
    /\ LET b == backpropagation(visits, reward_sum, created_node, result) IN
          /\ visits' = b.visits
          /\ reward_sum' = b.reward_sum
          /\ err' = b.err
          /\ itr' = IF b.err = "none" THEN itr + 1 ELSE itr
          /\ pc' = IF b.err = "none" THEN "loop" ELSE pc
    /\ UNCHANGED <<state, parent, children, root, handle, max_itr, cycle, best_node, distributions>>

\* best_move_root = get_best_action(root)
GetBestAction ==
    /\ pc = "returned" /\ err = "none"
    /\ best_node' = get_best_action(root)
    /\ pc' = "best"
    /\ UNCHANGED <<tree, root, handle, max_itr, itr, err, cycle, distributions>>

Next ==
    \/ TimeBudget
    \/ IterationBudget
    \/ LoopEnter
    \/ LoopExit
    \/ Selection
    \/ Expansion
    \/ Simulation
    \/ Backpropagation
    \/ GetBestAction

Spec == Init /\ [][Next]_vars

\* ------------------------------------- get_best_action on a node of its own
\* the states a node handed to get_best_action may own: a start position, or
\* a position one legal move into the game
StartStates == {RootState(p) : p \in 0..MaxPile}

NodeStates ==
    StartStates \cup
    UNION {{step(s, get_legal_actions(s)[i]) : i \in 1..Len(get_legal_actions(s))} :
              s \in StartStates}

\* a node that was never expanded, or was expanded once by expansion with the
\* handle in state hs, its children carrying any visit counts
InitBest ==
    /\ \E s \in NodeStates, hs \in NodeStates, expanded \in BOOLEAN :
          LET moves == IF expanded THEN get_legal_actions(hs) ELSE <<>>
              k == Len(moves)
          IN  /\ state = <<s>> \o [i \in 1..k |-> ChildState(hs, moves, i)]
              /\ handle = hs
              /\ parent = <<None>> \o [i \in 1..k |-> 1]
              /\ children = << [i \in 1..k |-> i + 1] >> \o [i \in 1..k |-> <<>>]
              /\ \E cv \in [1..k -> 0..MaxVisits] : visits = <<0>> \o cv
              /\ reward_sum = <<0>> \o [i \in 1..k |-> 0]
    /\ root = 1
    /\ max_itr = 1
    /\ itr = 1
    /\ pc = "returned"
    /\ err = "none"
    /\ chosen_node = None
    /\ created_node = None
    /\ result = 0
    /\ best_node = None
    /\ distributions = <<>>

NextBest == GetBestAction

SpecBest == InitBest /\ [][NextBest]_vars

\* ----------------------------------------------- get_action_probabilities
\* the value appended for an action the mask marks illegal
IllegalSlot == -100

\* the for loop of get_action_probabilities from mask slot m on, i children
\* consumed so far; node.get_children()[i] past the end raises IndexError
RECURSIVE ActionLoop(_, _, _, _)
ActionLoop(node, m, i, acc) ==
    IF m > Len(get_actions_mask(state[node])) THEN [err |-> "none", dist |-> acc]
    ELSE IF get_actions_mask(state[node])[m] = 1
         THEN IF i + 1 > Len(get_children(node))
              THEN [err |-> "IndexError", dist |-> acc]
              ELSE ActionLoop(node, m + 1, i + 1,
                              Append(acc, visits[get_children(node)[i + 1]]))
         ELSE ActionLoop(node, m + 1, i, Append(acc, IllegalSlot))

\* the list get_action_probabilities(node) passes to softmax
get_action_probabilities(node) == ActionLoop(node, 1, 0, <<>>)

\* ------------------------------------------------- generate_test_data, one game
\* root = Node(start_node.get_state()); game = root.get_state()
InitGen ==
    /\ \E p \in 0..MaxPile :
          /\ state = <<RootState(p)>>
          /\ handle = RootState(p)
    /\ parent = <<None>>
    /\ children = << <<>> >>
    /\ visits = <<0>>
    /\ reward_sum = <<0>>
    /\ root = 1
    /\ max_itr \in 0..MaxItr
    /\ itr = 0
    /\ pc = "game"
    /\ err = "none"
    /\ chosen_node = None
    /\ created_node = None
    /\ result = 0
    /\ best_node = None
    /\ distributions = <<>>

\* while not game.is_finished() and root != None: monte_carlo_tree_search(...)
GameLoopEnter ==
    /\ pc = "game" /\ err = "none"
    /\ ~is_finished(handle) /\ root # None
    /\ pc' = "call"
    /\ UNCHANGED <<tree, root, handle, max_itr, itr, err, cycle, best_node, distributions>>

GameLoopExit ==
    /\ pc = "game" /\ err = "none"
    /\ ~(~is_finished(handle) /\ root # None)
    /\ pc' = "game_over"
    /\ UNCHANGED <<tree, root, handle, max_itr, itr, err, cycle, best_node, distributions>>

\* distribution = get_action_probabilities(root)
GetActionProbabilities ==
    /\ pc = "returned" /\ err = "none"
    /\ LET d == get_action_probabilities(root) IN
          /\ distributions' = d.dist
          /\ err' = d.err
          /\ pc' = IF d.err = "none" THEN "distribution" ELSE pc
    /\ UNCHANGED <<tree, root, handle, max_itr, itr, cycle, best_node>>

\* best_move_root = get_best_action(root), after the distribution is stored
ChooseMove ==
    /\ pc = "distribution" /\ err = "none"
    /\ best_node' = get_best_action(root)
    /\ pc' = "best"
    /\ UNCHANGED <<tree, root, handle, max_itr, itr, err, cycle, distributions>>

\* root = best_move_root; game = root.get_state()
AdvanceRoot ==
    /\ pc = "best" /\ err = "none"
    /\ root' = best_node
    /\ IF best_node = None
       THEN /\ err' = "AttributeError"
            /\ UNCHANGED <<handle, pc>>
       ELSE /\ handle' = state[best_node]
            /\ pc' = "game"
            /\ err' = err
    /\ UNCHANGED <<tree, max_itr, itr, cycle, best_node, distributions>>

NextGen ==
    \/ GameLoopEnter
    \/ GameLoopExit
    \/ TimeBudget
    \/ IterationBudget
    \/ LoopEnter
    \/ LoopExit
    \/ Selection
    \/ Expansion
    \/ Simulation
    \/ Backpropagation
    \/ GetActionProbabilities
    \/ ChooseMove
    \/ AdvanceRoot

SpecGen == InitGen /\ [][NextGen]_vars

\* ================================================================ claims
InterCycle == err = "none" /\ pc \in {"loop", "returned"}

\* C1: after N full cycles from a fresh root, the root's visits equals N.
C1_RootVisitsEqualCycles == InterCycle => visits[root] = itr

\* C2: between cycles every node with visits >= 1 has visits equal to 1 plus
\* the sum of the visits of its children.
C2_VisitConservation ==
    InterCycle =>
        \A n \in Nodes :
            visits[n] >= 1 => visits[n] = 1 + SumVisits(visits, get_children(n))

\* C3: for a root that is not finished, after a run of N iterations the
\* visits of the root's children sum to N.
C3_ChildrenVisitsSumToBudget ==
    (err = "none" /\ pc = "returned" /\ ~is_finished(state[root]))
        => SumVisits(visits, get_children(root)) = max_itr

Sign(k) == IF k % 2 = 0 THEN 1 ELSE -1

\* C4: backpropagation(node, r) on a node at depth d returns normally having
\* given the ancestor k plies above node, for each k in 0..d, visits + 1 and
\* reward_sum + (-1)^k * r.
C4_BackpropagationWalksToRoot ==
    [][(pc = "backpropagation" /\ err = "none") =>
          /\ err' = "none"
          /\ \A k \in 0..Depth(created_node) :
                LET a == Ancestor(created_node, k) IN
                   /\ visits'[a] = visits[a] + 1
                   /\ reward_sum'[a] = reward_sum[a] + Sign(k) * result]_vars

\* C5: selection on a node with children never descends into the absent node
\* and never fails, whatever the sign of the children's scores.
C5_SelectionNeverFails == ~(pc = "selection" /\ err # "none")

Score(c) == ucb(c).val

\* the child of n with the maximum score, the earliest of several
FirstMaxChild(n) ==
    LET kids == get_children(n)
        i == CHOOSE i \in 1..Len(kids) :
                /\ \A j \in 1..Len(kids) : Score(kids[j]) <= Score(kids[i])
                /\ \A j \in 1..(i - 1) : Score(kids[j]) < Score(kids[i])
    IN  kids[i]

RECURSIVE UcbDescent(_)
UcbDescent(n) == IF get_children(n) = <<>> THEN n ELSE UcbDescent(FirstMaxChild(n))

\* C6: selection(root) returns the childless node reached from root by taking
\* at every level the child with the maximum UCB score, the earliest in child
\* order among equal maxima.
C6_SelectionFollowsFirstMaximum ==
    [][(pc = "selection" /\ err = "none") =>
          /\ err' = "none"
          /\ chosen_node' = UcbDescent(root)
          /\ get_children(chosen_node') = <<>>]_vars

\* C7: expansion gives the frontier node one child per legal action of the
\* node's own state, in legal-action order, each child owning the node's
\* state with that action applied.
C7_ExpansionFromOwnState ==
    [][(pc = "expansion" /\ err = "none") =>
          LET legal == get_legal_actions(state[chosen_node])
              kids == children'[chosen_node]
          IN  /\ Len(kids) = Len(legal)
              /\ \A i \in 1..Len(legal) :
                    state'[kids[i]] = step(state[chosen_node], legal[i])]_vars

\* C8: a node whose state is finished never has children.
C8_FinishedNodeHasNoChildren ==
    \A n \in Nodes : is_finished(state[n]) => get_children(n) = <<>>

\* C9: no step of a run changes the game-state handle: expansion undoes every
\* step with step_back and simulation plays on a copy.
C9_HandleUnchanged == [][handle' = handle]_vars

\* expansion has stepped and stepped back at least twice and simulation has
\* played a non-finished position to its end
C9_Witness ==
    /\ pc = "backpropagation"
    /\ Len(get_children(chosen_node)) >= 2
    /\ ~is_finished(state[created_node])
    /\ handle.hist = <<>>
    /\ handle.pile >= 2

\* C10: get_best_action(root) is root when root's state is finished;
\* otherwise, when root has children, it is the child with the highest
\* visits, the earliest in child order among equal counts.
C10_BestAction ==
    pc = "best" =>
        /\ is_finished(state[root]) => best_node = root
        /\ (~is_finished(state[root]) /\ get_children(root) # <<>>) =>
              \E i \in 1..Len(get_children(root)) :
                 LET kids == get_children(root) IN
                    /\ best_node = kids[i]
                    /\ \A j \in 1..Len(kids) : visits[kids[j]] <= visits[kids[i]]
                    /\ \A j \in 1..(i - 1) : visits[kids[j]] < visits[kids[i]]

\* two children share the highest count and the earlier one is returned
C10_Witness ==
    /\ pc = "best"
    /\ ~is_finished(state[root])
    /\ Len(get_children(root)) >= 2
    /\ visits[get_children(root)[1]] = visits[get_children(root)[2]]
    /\ visits[get_children(root)[1]] >= 1
    /\ \A j \in 1..Len(get_children(root)) :
          visits[get_children(root)[j]] <= visits[get_children(root)[1]]
    /\ best_node = get_children(root)[1]

\* C11: get_best_action on a node whose state is not finished and which has
\* no children ends in an error the caller sees, not in a returned value.
C11_UnexpandedNodeIsAnError ==
    (pc = "best" /\ ~is_finished(state[root]) /\ get_children(root) = <<>>)
        => err # "none"

\* C12: with max_itr = N > 0 the run never aborts, its cycles go selection,
\* expansion, simulation, backpropagation in that order, the next cycle
\* starting only from the loop test, and it returns after exactly N cycles
\* with the root it was given.
C12_IterationBudgetRun ==
    [][(max_itr > 0 /\ pc \in {"call", "loop", "selection", "expansion",
                                "simulation", "backpropagation"}) =>
          /\ err' = "none"
          /\ pc = "call" => pc' = "loop"
          /\ pc = "loop" => pc' \in {"selection", "returned"}
          /\ pc = "selection" => pc' = "expansion"
          /\ pc = "expansion" => pc' = "simulation"
          /\ pc = "simulation" => pc' = "backpropagation"
          /\ pc = "backpropagation" => (pc' = "loop" /\ itr' = itr + 1)
          /\ pc' = "returned" => (itr' = max_itr /\ root' = root)]_vars

\* C13: with max_itr = 0 the run is not ended by an error: it cycles until the
\* time budget is used up and returns the root.
C13_TimeBudgetRunIsNoError == max_itr = 0 => err = "none"

\* the number of legal slots of the mask of s among slots 1..m
LegalUpTo(s, m) == Cardinality({j \in 1..m : get_actions_mask(s)[j] = 1})

\* C14: for the non-finished root of every search of a game,
\* get_action_probabilities(root) fails nowhere, root has as many children
\* as its own state has legal slots, and the vector has one entry per mask
\* slot: the visits of the j-th child in the j-th legal slot, the sentinel in
\* every illegal slot.
C14_VectorFollowsOwnMask ==
    [][(pc = "returned" /\ err = "none" /\ ~is_finished(state[root])) =>
          LET s == state[root]
              kids == get_children(root)
          IN  /\ err' = "none"
              /\ Len(kids) = LegalUpTo(s, MaxTake)
              /\ Len(distributions') = MaxTake
              /\ \A m \in 1..MaxTake :
                    distributions'[m] =
                        IF get_actions_mask(s)[m] = 1
                        THEN visits[kids[LegalUpTo(s, m)]]
                        ELSE IllegalSlot]_vars

\* C16: once a node has children, no step appends to or otherwise changes
\* its child sequence.
C16_ChildrenPopulatedOnce ==
    [][\A n \in Nodes : get_children(n) # <<>> => children'[n] = children[n]]_vars

\* a second expansion has run, on a node other than the root, while the
\* root kept the children of the first
C16_Witness ==
    /\ pc = "simulation"
    /\ itr >= 1
    /\ chosen_node # root
    /\ get_children(chosen_node) # <<>>
    /\ get_children(root) # <<>>

\* the places (m, i) where node n stands in a child sequence
Places(n) ==
    {mi \in Nodes \X (1..MaxTake) :
        mi[2] <= Len(get_children(mi[1])) /\ get_children(mi[1])[mi[2]] = n}

\* C17: the root of the search has no parent and stands in no child sequence,
\* and every other node stands exactly once in exactly one child sequence,
\* that of its parent.
C17_TreeWellFormed ==
    /\ ~has_parent(root)
    /\ Places(root) = {}
    /\ \A n \in Nodes \ {root} :
          /\ Cardinality(Places(n)) = 1
          /\ \A mi \in Places(n) : mi[1] = get_parent(n)

\* the nodes from n up to the node without a parent
RECURSIVE PathToRoot(_)
PathToRoot(n) == IF ~has_parent(n) THEN {n} ELSE {n} \cup PathToRoot(get_parent(n))

\* C18: backpropagation of a cycle adds 1 to the visits of exactly the nodes
\* from the created node up to the root and changes the reward_sum of no
\* other node; selection, expansion and simulation change no node's
\* statistics.
C18_CycleTouchesExactlyThePath ==
    [][(err = "none" /\ pc \in {"selection", "expansion", "simulation",
                                "backpropagation"}) =>
          \A n \in Nodes :
             IF pc = "backpropagation" /\ n \in PathToRoot(created_node)
             THEN visits'[n] = visits[n] + 1
             ELSE visits'[n] = visits[n] /\ reward_sum'[n] = reward_sum[n]]_vars

\* C19: every node's reward_sum lies between -visits and visits.
C19_RewardBoundedByVisits ==
    \A n \in Nodes : -visits[n] <= reward_sum[n] /\ reward_sum[n] <= visits[n]

\* a lost playout has been recorded at a node: the lower bound is met
C19_Witness ==
    \E n \in Nodes : visits[n] = 1 /\ reward_sum[n] = -1 /\ has_parent(n)

====
